---- MODULE Spec2Model ----
(***************************************************************************)
(* Model of src/app.py: the Abu Dhabi 2021 dashboard.                      *)
(*                                                                         *)
(* One user interaction is one run of the script, that is one call of      *)
(* main(): the page is rebuilt from nothing, load_race_data() is answered  *)
(* by the st.cache_data memo or executed, the data selector runs and the   *)
(* selected section is rendered.  The only state that survives a run is    *)
(* the memo of load_race_data and the cache directory on disk; the         *)
(* remaining variables record what the last run rendered, called, fetched  *)
(* and raised.                                                             *)
(***************************************************************************)
EXTENDS Integers, Sequences, FiniteSets

VARIABLES dirExists,        \* './cache' exists on disk
          cache,            \* memo of load_race_data (st.cache_data)
          getSessionCalls,  \* number of fastf1.get_session calls so far
          loadCalls,        \* number of session.load calls so far
          section,          \* section selected in the last run
          loadHow,          \* "none" | "miss" | "hit": how the last run got the session
          out,              \* elements rendered by the last run, in order
          charts,           \* chart descriptions rendered by the last run
          escaped,          \* exception that left main in the last run, or "none"
          calls,            \* selectors / builders invoked by the last run
          fetched,          \* <<driver, lap>> whose telemetry the last run fetched
          converted,        \* lap times handed to dt.total_seconds() in the last run
          loadSteps,        \* calls made by load_race_data in the last run, in order
          stintIn,          \* stint table handed to the strategy builder
          stintOut          \* what the strategy builder made of stintIn

vars == <<dirExists, cache, getSessionCalls, loadCalls, section, loadHow,
          out, charts, escaped, calls, fetched, converted, loadSteps,
          stintIn, stintOut>>

(***************************************************************************)
(* Bounds                                                                  *)
(***************************************************************************)
SmallLaps == 3     \* a short lap table has SmallLaps laps per driver
MaxLaps == 58      \* the longest lap table has MaxLaps laps per driver
MaxCalls == 3      \* cap of the provider call counters

(***************************************************************************)
(* Program constants                                                       *)
(***************************************************************************)
FinalLap == 58     \* laps['LapNumber'] == 58
FinalStart == 49   \* ver_laps_clean['LapNumber'] >= 49

Drivers == {"VER", "HAM"}

Sections == {"Overview", "Telemetry Analysis", "Race Pace",
             "Strategy Analysis", "Final Moments"}

(***************************************************************************)
(* Lap times.  A lap time is a pandas Timedelta or NaT; a Timedelta is     *)
(* kept in tenths of a second.  dt.total_seconds() turns a Timedelta into  *)
(* a number of seconds (whole part and tenths) and NaT into NaN.           *)
(***************************************************************************)
NaT == [null |-> TRUE, tenths |-> 0]
Timedelta(t) == [null |-> FALSE, tenths |-> t]
NaN == [nan |-> TRUE, s |-> 0, frac |-> 0]

notnull(d) == ~d.null

total_seconds(d) ==
    IF d.null THEN NaN
    ELSE [nan |-> FALSE, s |-> d.tenths \div 10, frac |-> d.tenths % 10]

(***************************************************************************)
(* Lap tables the provider can deliver.  A driver has laps 1..n, with n    *)
(* one of LapCounts (no lap, a few laps, a race that stops at lap          *)
(* FinalStart, the full race, the longest table); the laps                 *)
(* without a lap time are lap 1, lap FinalStart or the last lap, in any    *)
(* combination, or all of them.                                            *)
(***************************************************************************)
LapCounts == {0, SmallLaps, FinalStart, FinalLap, MaxLaps}

NullSets(n) ==
    (SUBSET ({1, FinalStart, n} \cap (1 .. n))) \cup {1 .. n}

LapTimeAt(d, i) ==
    Timedelta(855 + ((i * 5 + (IF d = "VER" THEN 0 ELSE 3)) % 11))

Lap(d, i, nulls) ==
    [Driver |-> d, LapNumber |-> i,
     LapTime |-> IF i \in nulls THEN NaT ELSE LapTimeAt(d, i),
     Position |-> IF i \in nulls THEN 0 ELSE (IF d = "VER" THEN 2 ELSE 1)]
     \* Position 0 stands for a missing position (laps without a time)

DriverLaps(d, n, nulls) == [i \in 1 .. n |-> Lap(d, i, nulls)]

OtherLaps == <<[Driver |-> "BOT", LapNumber |-> 1,
                LapTime |-> Timedelta(850), Position |-> 3]>>

LapTable(nv, zv, nh, zh) ==
    DriverLaps("VER", nv, zv) \o DriverLaps("HAM", nh, zh) \o OtherLaps


(***************************************************************************)
(* Session objects.  None is what load_race_data returns on failure.       *)
(* noTel[d] says which of d's laps have no telemetry in the loaded data:   *)
(* "none" of them, the "final" lap only, or "all".                         *)
(***************************************************************************)
TelGaps == {"none", "final", "all"}

None == [ok |-> FALSE, laps |-> <<>>, noTel |-> [d \in Drivers |-> "none"]]

Session(laps, noTel) == [ok |-> TRUE, laps |-> laps, noTel |-> noTel]

IsNoneNever(session) == FALSE

\* main: `if session is None`
IsNone(session) == ~session.ok

(***************************************************************************)
(* fastf1 selectors used by the program                                    *)
(***************************************************************************)
pick_drivers(laps, d) == SelectSeq(laps, LAMBDA l : l.Driver = d)

NoLap == [found |-> FALSE,
          lap |-> [Driver |-> "", LapNumber |-> 0, LapTime |-> NaT, Position |-> 0]]

\* index of the first lap of `laps` with the smallest lap time (idxmin)
idxmin(laps) ==
    CHOOSE i \in 1 .. Len(laps) :
        /\ notnull(laps[i].LapTime)
        /\ \A j \in 1 .. Len(laps) :
              notnull(laps[j].LapTime) =>
                 \/ laps[i].LapTime.tenths < laps[j].LapTime.tenths
                 \/ (laps[i].LapTime.tenths = laps[j].LapTime.tenths /\ i <= j)

pick_fastest_unchecked(laps) ==
    IF Len(laps) = 0 THEN NoLap
    ELSE IF \A i \in 1 .. Len(laps) : laps[i].LapTime.null
         THEN [found |-> TRUE, lap |-> laps[1]]
         ELSE [found |-> TRUE, lap |-> laps[idxmin(laps)]]

\* Laps.pick_fastest(): None when there is no lap or no lap has a lap time.
\* (fastf1 looks for the minimum among the laps it flags as personal best;
\* the lap tables here flag every timed lap.)
pick_fastest(laps) ==
    IF Len(laps) = 0 THEN NoLap
    ELSE IF \A i \in 1 .. Len(laps) : laps[i].LapTime.null THEN NoLap
    ELSE [found |-> TRUE, lap |-> laps[idxmin(laps)]]

\* Lap.get_telemetry(): raises when the session holds no car data for the lap
TelemetryAvailable(session, lap) ==
    \/ session.noTel[lap.Driver] = "none"
    \/ session.noTel[lap.Driver] = "final" /\ lap.LapNumber # FinalLap

Tel(lap) == <<lap.Driver, lap.LapNumber>>

NoTel == <<"", 0>>

(***************************************************************************)
(* get_telemetry_data(session).  The result says which exception left the  *)
(* function ("none" for a normal return) and which telemetry it fetched.   *)
(***************************************************************************)
TelData(err, fetchedTel, vt, ht, vl, hl) ==
    [err |-> err, fetched |-> fetchedTel, ver_tel |-> vt, ham_tel |-> ht,
     ver_laps |-> vl, ham_laps |-> hl]

get_telemetry_data(session) ==
    IF ~session.ok
    THEN TelData("AttributeError", {}, NoTel, NoTel, <<>>, <<>>)   \* None.laps
    ELSE
    LET laps == session.laps
        ver_fastest == pick_fastest(pick_drivers(laps, "VER"))
        ham_fastest == pick_fastest(pick_drivers(laps, "HAM"))
    IN  IF ~ver_fastest.found
        THEN TelData("AttributeError", {}, NoTel, NoTel, <<>>, <<>>)
        ELSE IF ~TelemetryAvailable(session, ver_fastest.lap)
        THEN TelData("TelemetryError", {}, NoTel, NoTel, <<>>, <<>>)
        ELSE IF ~ham_fastest.found
        THEN TelData("AttributeError", {Tel(ver_fastest.lap)},
                     NoTel, NoTel, <<>>, <<>>)
        ELSE IF ~TelemetryAvailable(session, ham_fastest.lap)
        THEN TelData("TelemetryError", {Tel(ver_fastest.lap)},
                     NoTel, NoTel, <<>>, <<>>)
        ELSE TelData("none", {Tel(ver_fastest.lap), Tel(ham_fastest.lap)},
                     Tel(ver_fastest.lap), Tel(ham_fastest.lap),
                     pick_drivers(laps, "VER"), pick_drivers(laps, "HAM"))

(***************************************************************************)
(* Chart descriptions.  A figure has a name, its traces in the order they  *)
(* were added and its overlays.  A telemetry column is kept as the         *)
(* telemetry it comes from and the column's name.                          *)
(***************************************************************************)
Trace(name, x, y, color) == [name |-> name, x |-> x, y |-> y, color |-> color]

Figure(name, traces, marks) == [name |-> name, traces |-> traces, marks |-> marks]

Col(tel, column) == <<tel, column>>

Column(laps, f(_)) == [i \in 1 .. Len(laps) |-> f(laps[i])]

\* create_speed_chart, create_throttle_chart, create_gear_chart, create_rpm_chart
create_telemetry_chart(name, column, ver_tel, ham_tel, vcolor, hcolor) ==
    Figure(name,
           <<Trace("Verstappen", Col(ver_tel, "Distance"), Col(ver_tel, column), vcolor),
             Trace("Hamilton", Col(ham_tel, "Distance"), Col(ham_tel, column), hcolor)>>,
           <<>>)

create_speed_chart(ver_tel, ham_tel) ==
    create_telemetry_chart("speed", "Speed", ver_tel, ham_tel, "#E74C3C", "#3498DB")

create_throttle_chart(ver_tel, ham_tel) ==
    create_telemetry_chart("throttle", "Throttle", ver_tel, ham_tel, "#FF6B35", "#2ECC71")

\* the Brake column is coerced with astype(int) before it is plotted
create_brake_chart(ver_tel, ham_tel) ==
    create_telemetry_chart("brake", "Brake.astype(int)", ver_tel, ham_tel,
                           "#9B59B6", "#1ABC9C")

create_gear_chart(ver_tel, ham_tel) ==
    create_telemetry_chart("gear", "nGear", ver_tel, ham_tel, "#E74C3C", "#3498DB")

create_rpm_chart(ver_tel, ham_tel) ==
    create_telemetry_chart("rpm", "RPM", ver_tel, ham_tel, "#E74C3C", "#3498DB")

KeepNullLapTime(laps) == laps

\* laps[laps['LapTime'].notnull()].copy()
DropNullLapTime(laps) == SelectSeq(laps, LAMBDA l : notnull(l.LapTime))

LapNumberOf(l) == l.LapNumber
LapTimeOf(l) == l.LapTime
LapTime_s(l) == total_seconds(l.LapTime)
PositionOf(l) == l.Position

\* The result of a lap-time builder: the figure and the lap times that
\* were handed to dt.total_seconds().
Built(fig, conv) == [fig |-> fig, conv |-> conv]

create_laptime_chart(ver_laps, ham_laps) ==
    LET ver_laps_clean == DropNullLapTime(ver_laps)
        ham_laps_clean == DropNullLapTime(ham_laps)
    IN  Built(Figure("laptime",
                     <<Trace("Verstappen", Column(ver_laps_clean, LapNumberOf),
                             Column(ver_laps_clean, LapTime_s), "#E74C3C"),
                       Trace("Hamilton", Column(ham_laps_clean, LapNumberOf),
                             Column(ham_laps_clean, LapTime_s), "#3498DB")>>,
                     <<[x0 |-> 53, x1 |-> 56, text |-> "Safety Car"],
                       [x0 |-> FinalLap, x1 |-> FinalLap, text |-> "Final Lap"]>>),
              Column(ver_laps_clean, LapTimeOf) \o Column(ham_laps_clean, LapTimeOf))

FinalSliceOffByOne(clean) == SelectSeq(clean, LAMBDA l : l.LapNumber > FinalStart)

\* ver_laps_clean[ver_laps_clean['LapNumber'] >= 49]
FinalSlice(clean) == SelectSeq(clean, LAMBDA l : l.LapNumber >= FinalStart)

create_final_laps_chart(ver_laps, ham_laps) ==
    LET ver_laps_clean == DropNullLapTime(ver_laps)
        ham_laps_clean == DropNullLapTime(ham_laps)
        ver_final == FinalSlice(ver_laps_clean)
        ham_final == FinalSlice(ham_laps_clean)
    IN  Built(Figure("final_laps",
                     <<Trace("Verstappen", Column(ver_final, LapNumberOf),
                             Column(ver_final, LapTime_s), "#E74C3C"),
                       Trace("Hamilton", Column(ham_final, LapNumberOf),
                             Column(ham_final, LapTime_s), "#3498DB")>>,
                     <<>>),
              Column(ver_laps_clean, LapTimeOf) \o Column(ham_laps_clean, LapTimeOf))

create_position_chart(session) ==
    LET ver_laps == pick_drivers(session.laps, "VER")
        ham_laps == pick_drivers(session.laps, "HAM")
    IN  Figure("position",
               <<Trace("Verstappen", Column(ver_laps, LapNumberOf),
                       Column(ver_laps, PositionOf), "#E74C3C"),
                 Trace("Hamilton", Column(ham_laps, LapNumberOf),
                       Column(ham_laps, PositionOf), "#3498DB")>>,
               <<[x0 |-> FinalLap, x1 |-> FinalLap, text |-> "Final Lap Overtake"]>>)

(***************************************************************************)
(* Tyre strategy timeline                                                  *)
(***************************************************************************)
Stint(d, t, a, b, k) == [Driver |-> d, Tyre |-> t, Start |-> a, End |-> b, Stint |-> k]

pit_data_gap ==
    <<Stint("HAM", "Medium", 0, 14, 0), Stint("HAM", "Hard", 14, 58, 1),
      Stint("VER", "Medium", 0, 36, 2), Stint("VER", "Hard", 37, 53, 3),
      Stint("VER", "Soft", 53, 58, 4)>>

pit_data ==
    <<Stint("HAM", "Medium", 0, 14, 0), Stint("HAM", "Hard", 14, 58, 1),
      Stint("VER", "Medium", 0, 36, 2), Stint("VER", "Hard", 36, 53, 3),
      Stint("VER", "Soft", 53, 58, 4)>>

colors == [Soft |-> "#E74C3C", Hard |-> "#ECF0F1", Medium |-> "#F39C12"]

ColorOrDefault(tyre) ==
    IF tyre \in DOMAIN colors THEN [ok |-> TRUE, color |-> colors[tyre]]
    ELSE [ok |-> TRUE, color |-> "#808080"]

\* colors[row['Tyre']]: a KeyError for a compound that is not a key
ColorOf(tyre) ==
    IF tyre \in DOMAIN colors THEN [ok |-> TRUE, color |-> colors[tyre]]
    ELSE [ok |-> FALSE, color |-> ""]

Bar(row) ==
    [name |-> <<row.Driver, row.Tyre>>, x |-> row.End - row.Start,
     y |-> row.Stint, base |-> row.Start, color |-> ColorOf(row.Tyre).color]

NoFigure == Figure("", <<>>, <<>>)

\* the body of create_tyre_strategy_chart applied to a stint table
TyreChart(pit) ==
    IF \E i \in 1 .. Len(pit) : ~ColorOf(pit[i].Tyre).ok
    THEN [err |-> "KeyError", fig |-> NoFigure]
    ELSE [err |-> "none",
          fig |-> Figure("tyre", [i \in 1 .. Len(pit) |-> Bar(pit[i])], <<>>)]

create_tyre_strategy_chart == TyreChart(pit_data)

(***************************************************************************)
(* load_race_data: the function body, and the st.cache_data memo around    *)
(* it.  failAt names the step that raises in this execution.               *)
(***************************************************************************)
FailPoints == {"none", "makedirs", "enable_cache", "get_session", "load"}

\* one call made by load_race_data: what was called, whether './cache'
\* existed at that moment, and whether the call raised
Step(call, dir, raised) == [call |-> call, dir |-> dir, raised |-> raised]

\* os.path.exists('./cache'), and os.makedirs('./cache') when it is missing
EntrySteps(dir, failAt) ==
    <<Step("exists", dir, FALSE)>>
    \o (IF dir THEN <<>> ELSE <<Step("makedirs", FALSE, failAt = "makedirs")>>)

\* fastf1.Cache.enable_cache, fastf1.get_session and session.load, up to
\* the call that raises
ProviderSteps(dir, failAt) ==
    LET order == <<"enable_cache", "get_session", "load">>
        n == IF failAt = "enable_cache" THEN 1
             ELSE IF failAt = "get_session" THEN 2 ELSE 3
    IN  [i \in 1 .. n |-> Step(order[i], dir, order[i] = failAt)]

Loaded(ret, msgs, dir, gs, ld, steps) ==
    [ret |-> ret, msgs |-> msgs, dir |-> dir, gs |-> gs, ld |-> ld,
     steps |-> steps]

\* load_race_data without the directory check: enable_cache is handed a
\* path that may not exist (and raises when it does not)
load_race_data_no_makedirs(dir, failAt, session) ==
    LET entry == <<Step("exists", dir, FALSE)>>
    IN  IF ~dir
        THEN Loaded(None, <<"error:loading">>, FALSE, 0, 0,
                    entry \o <<Step("enable_cache", FALSE, TRUE)>>)
        ELSE IF failAt = "enable_cache"
        THEN Loaded(None, <<"error:loading">>, TRUE, 0, 0,
                    entry \o ProviderSteps(TRUE, failAt))
        ELSE IF failAt = "get_session"
        THEN Loaded(None, <<"error:loading">>, TRUE, 1, 0,
                    entry \o ProviderSteps(TRUE, failAt))
        ELSE IF failAt = "load"
        THEN Loaded(None, <<"error:loading">>, TRUE, 1, 1,
                    entry \o ProviderSteps(TRUE, failAt))
        ELSE Loaded(session, <<>>, TRUE, 1, 1,
                    entry \o ProviderSteps(TRUE, failAt))

load_race_data(dir, failAt, session) ==
    IF ~dir /\ failAt = "makedirs"
    THEN Loaded(None, <<"error:loading">>, FALSE, 0, 0, EntrySteps(dir, failAt))
    ELSE IF failAt = "enable_cache"
    THEN Loaded(None, <<"error:loading">>, TRUE, 0, 0,
                EntrySteps(dir, failAt) \o ProviderSteps(TRUE, failAt))
    ELSE IF failAt = "get_session"
    THEN Loaded(None, <<"error:loading">>, TRUE, 1, 0,
                EntrySteps(dir, failAt) \o ProviderSteps(TRUE, failAt))
    ELSE IF failAt = "load"
    THEN Loaded(None, <<"error:loading">>, TRUE, 1, 1,
                EntrySteps(dir, failAt) \o ProviderSteps(TRUE, failAt))
    ELSE Loaded(session, <<>>, TRUE, 1, 1,
                EntrySteps(dir, failAt) \o ProviderSteps(TRUE, failAt))

\* sessions the provider can deliver
Sessions ==
    UNION { { Session(LapTable(nv, zv, nh, zh), noTel) :
                zv \in NullSets(nv), zh \in NullSets(nh),
                noTel \in [Drivers -> TelGaps] } :
            nv \in LapCounts, nh \in LapCounts }

\* what one execution of load_race_data can come to: a step raises (makedirs
\* is only called, and so can only raise, when the directory is missing), or
\* the provider delivers a session
LoadOutcomes(dir) ==
    { load_race_data(dir, failAt, None) :
         failAt \in (IF dir THEN FailPoints \ {"none", "makedirs"}
                            ELSE FailPoints \ {"none"}) }
    \cup { load_race_data(dir, "none", session) : session \in Sessions }

EmptyCache == [filled |-> FALSE, value |-> None, msgs |-> <<>>]

CacheHitNever(c) == FALSE

\* @st.cache_data: the function has no arguments, so the memo has one entry;
\* it holds the returned value, None included, and the elements the body
\* rendered, which a hit renders again.
CacheHit(c) == c.filled

(***************************************************************************)
(* main.  A run is what one call of main renders, calls, fetches and       *)
(* raises.                                                                 *)
(***************************************************************************)
Run(o, ch, esc, cl, fe, conv) ==
    [out |-> o, charts |-> ch, escaped |-> esc, calls |-> cl,
     fetched |-> fe, converted |-> conv]

\* the try block of the Final Moments section, up to st.plotly_chart
FinalLapTry(session) ==
    LET laps == session.laps
        ver58 == SelectSeq(pick_drivers(laps, "VER"), LAMBDA l : l.LapNumber = FinalLap)
        ham58 == SelectSeq(pick_drivers(laps, "HAM"), LAMBDA l : l.LapNumber = FinalLap)
    IN  IF Len(ver58) = 0 \/ Len(ham58) = 0
        THEN [err |-> "IndexError", fetched |-> {}, fig |-> NoFigure]     \* .iloc[0]
        ELSE IF ~TelemetryAvailable(session, ver58[1])
        THEN [err |-> "TelemetryError", fetched |-> {}, fig |-> NoFigure]
        ELSE IF ~TelemetryAvailable(session, ham58[1])
        THEN [err |-> "TelemetryError", fetched |-> {Tel(ver58[1])}, fig |-> NoFigure]
        ELSE [err |-> "none", fetched |-> {Tel(ver58[1]), Tel(ham58[1])},
              fig |-> Figure("final_lap",
                        <<Trace("Verstappen", Col(Tel(ver58[1]), "Distance"),
                                Col(Tel(ver58[1]), "Speed"), "#E74C3C"),
                          Trace("Hamilton", Col(Tel(ham58[1]), "Distance"),
                                Col(Tel(ham58[1]), "Speed"), "#3498DB")>>,
                        <<>>)]

Overview(td) ==
    Run(<<"h2:overview", "metric:winner", "metric:decided", "metric:factor",
          "md:overview">>, <<>>, "none", {}, {}, <<>>)

TelemetryAnalysis(td) ==
    Run(<<"h2:telemetry", "tabs",
          "chart:speed", "info:speed", "chart:throttle", "info:throttle",
          "chart:brake", "info:brake", "chart:gear", "info:gear",
          "chart:rpm", "info:rpm">>,
        <<create_speed_chart(td.ver_tel, td.ham_tel),
          create_throttle_chart(td.ver_tel, td.ham_tel),
          create_brake_chart(td.ver_tel, td.ham_tel),
          create_gear_chart(td.ver_tel, td.ham_tel),
          create_rpm_chart(td.ver_tel, td.ham_tel)>>,
        "none",
        {"create_speed_chart", "create_throttle_chart", "create_brake_chart",
         "create_gear_chart", "create_rpm_chart"},
        {}, <<>>)

RacePace(td) ==
    LET lt == create_laptime_chart(td.ver_laps, td.ham_laps)
        fl == create_final_laps_chart(td.ver_laps, td.ham_laps)
    IN  Run(<<"h2:pace", "chart:laptime", "md:pace", "chart:final_laps">>,
            <<lt.fig, fl.fig>>, "none",
            {"create_laptime_chart", "create_final_laps_chart"},
            {}, lt.conv \o fl.conv)

StrategyAnalysis(td) ==
    LET ty == create_tyre_strategy_chart
    IN  IF ty.err # "none"
        THEN Run(<<"h2:strategy">>, <<>>, ty.err,
                 {"create_tyre_strategy_chart"}, {}, <<>>)
        ELSE Run(<<"h2:strategy", "chart:tyre", "md:ham", "md:ver",
                   "success:strategy">>,
                 <<ty.fig>>, "none", {"create_tyre_strategy_chart"}, {}, <<>>)

FinalMoments(session) ==
    LET pos == create_position_chart(session)
        try == FinalLapTry(session)
    IN  IF try.err = "none"
        THEN Run(<<"h2:final", "chart:position", "md:lap58", "chart:final_lap",
                   "md:decisive">>,
                 <<pos, try.fig>>, "none",
                 {"create_position_chart", "select_lap_by_number"},
                 try.fetched, <<>>)
        ELSE Run(<<"h2:final", "chart:position", "md:lap58", "warning:final_lap",
                   "md:decisive">>,
                 <<pos>>, "none",
                 {"create_position_chart", "select_lap_by_number"},
                 try.fetched, <<>>)

SectionBody(sec, session, td) ==
    CASE sec = "Overview" -> Overview(td)
      [] sec = "Telemetry Analysis" -> TelemetryAnalysis(td)
      [] sec = "Race Pace" -> RacePace(td)
      [] sec = "Strategy Analysis" -> StrategyAnalysis(td)
      [] sec = "Final Moments" -> FinalMoments(session)

Header == <<"style", "title", "subtitle", "sidebar">>

Footer == <<"hr", "footer">>

\* main, given what load_race_data returned and rendered
main(sec, session, loadMsgs) ==
    IF IsNone(session)
    THEN Run(Header \o loadMsgs \o <<"error:failed">>, <<>>, "none", {}, {}, <<>>)
    ELSE
    LET td == get_telemetry_data(session)
    IN  IF td.err # "none"
        THEN Run(Header \o loadMsgs, <<>>, td.err, {"get_telemetry_data"},
                 td.fetched, <<>>)
        ELSE
        LET b == SectionBody(sec, session, td)
        IN  Run(Header \o loadMsgs \o b.out
                    \o (IF b.escaped = "none" THEN Footer ELSE <<>>),
                b.charts, b.escaped, b.calls \cup {"get_telemetry_data"},
                b.fetched \cup td.fetched, b.converted)

(***************************************************************************)
(* The dashboard: every step is one user interaction, a run of main.       *)
(***************************************************************************)
NoStintOut == [done |-> FALSE, err |-> "none", fig |-> NoFigure]

Init ==
    /\ dirExists \in BOOLEAN
    /\ cache = EmptyCache
    /\ getSessionCalls = 0
    /\ loadCalls = 0
    /\ section = "Overview"
    /\ loadHow = "none"
    /\ out = <<>>
    /\ charts = <<>>
    /\ escaped = "none"
    /\ calls = {}
    /\ fetched = {}
    /\ converted = <<>>
    /\ loadSteps = <<>>
    /\ stintIn = pit_data
    /\ stintOut = NoStintOut

Rendered(r) ==
    /\ out' = r.out
    /\ charts' = r.charts
    /\ escaped' = r.escaped
    /\ calls' = r.calls
    /\ fetched' = r.fetched
    /\ converted' = r.converted

Main(sec) ==
    /\ section' = sec
    /\ UNCHANGED <<stintIn, stintOut>>
    /\ IF CacheHit(cache)
       THEN /\ loadHow' = "hit"
            /\ loadSteps' = <<>>
            /\ Rendered(main(sec, cache.value, cache.msgs))
            /\ UNCHANGED <<dirExists, cache, getSessionCalls, loadCalls>>
       ELSE /\ getSessionCalls < MaxCalls
            /\ loadHow' = "miss"
            /\ \E ld \in LoadOutcomes(dirExists) :
                    /\ dirExists' = ld.dir
                    /\ cache' = [filled |-> TRUE, value |-> ld.ret,
                                 msgs |-> ld.msgs]
                    /\ getSessionCalls' = getSessionCalls + ld.gs
                    /\ loadCalls' = loadCalls + ld.ld
                    /\ loadSteps' = ld.steps
                    /\ Rendered(main(sec, ld.ret, ld.msgs))

Next == \E sec \in Sections : Main(sec)

Spec == Init /\ [][Next]_vars

(***************************************************************************)
(* The strategy builder on its own: the body of                            *)
(* create_tyre_strategy_chart applied to stint tables whose compounds are  *)
(* drawn from Compounds.                                                   *)
(***************************************************************************)
Compounds == {"Soft", "Medium", "Hard", "Intermediate"}

StintTables ==
    { [i \in 1 .. Len(pit_data) |-> [pit_data[i] EXCEPT !.Tyre = f[i]]] :
        f \in [1 .. Len(pit_data) -> Compounds] }

InitStint ==
    /\ dirExists = TRUE
    /\ cache = EmptyCache
    /\ getSessionCalls = 0
    /\ loadCalls = 0
    /\ section = "Strategy Analysis"
    /\ loadHow = "none"
    /\ out = <<>>
    /\ charts = <<>>
    /\ escaped = "none"
    /\ calls = {}
    /\ fetched = {}
    /\ converted = <<>>
    /\ loadSteps = <<>>
    /\ stintIn \in StintTables
    /\ stintOut = NoStintOut

BuildStint ==
    /\ ~stintOut.done
    /\ stintOut' = [done |-> TRUE, err |-> TyreChart(stintIn).err,
                    fig |-> TyreChart(stintIn).fig]
    /\ UNCHANGED <<dirExists, cache, getSessionCalls, loadCalls, section,
                   loadHow, out, charts, escaped, calls, fetched, converted,
                   loadSteps, stintIn>>

NextStint == BuildStint

SpecStint == InitStint /\ [][NextStint]_vars

(***************************************************************************)
(* Vocabulary of the properties                                            *)
(***************************************************************************)
Has(e) == \E i \in 1 .. Len(out) : out[i] = e

Count(e) == Cardinality({i \in 1 .. Len(out) : out[i] = e})

HasChart(name) == \E i \in 1 .. Len(charts) : charts[i].name = name

ChartNamed(name) == charts[CHOOSE i \in 1 .. Len(charts) : charts[i].name = name]

\* the last step was a run of main that got a Session from load_race_data
RanWithSession == loadHow # "none" /\ cache.value.ok

\* the last step was a run of main whose load_race_data returned None
RanWithoutSession == loadHow # "none" /\ ~cache.value.ok

\* positions of driver d's laps in the loaded lap table
LapIdx(d) == {i \in 1 .. Len(cache.value.laps) : cache.value.laps[i].Driver = d}

TimedLapIdx(d) == {i \in LapIdx(d) : ~cache.value.laps[i].LapTime.null}

HasNoLaps(d) == LapIdx(d) = {}

HasOnlyNullLaps(d) == LapIdx(d) # {} /\ TimedLapIdx(d) = {}

TraceOf(d) == IF d = "VER" THEN 1 ELSE 2

(***************************************************************************)
(* C1: a failure of a data selector for one chart (fastest-lap selection   *)
(* or its telemetry fetch failing in get_telemetry_data) is caught by main *)
(* and replaced by a warning: for a selected section that does not use the *)
(* failed data (Overview, Strategy Analysis) the section's content and the *)
(* footer are rendered and no exception leaves main.                       *)
(***************************************************************************)
SelectorFailureConfined ==
    (RanWithSession /\ section \in {"Overview", "Strategy Analysis"}) =>
        /\ escaped = "none"
        /\ Has("footer")
        /\ section = "Overview" => Has("md:overview")
        /\ section = "Strategy Analysis" => Has("chart:tyre")

(***************************************************************************)
(* C2: when the session load fails, load_race_data returns no session and  *)
(* main shows an error message, calls no data selector and no chart        *)
(* builder, renders no chart and no section content, and returns without   *)
(* an exception.                                                           *)
(***************************************************************************)
LoadFailureShowsOnlyError ==
    RanWithoutSession =>
        /\ Has("error:failed")
        /\ \A i \in 1 .. Len(out) :
              out[i] \in {"style", "title", "subtitle", "sidebar",
                          "error:loading", "error:failed"}
        /\ calls = {}
        /\ charts = <<>>
        /\ fetched = {}
        /\ escaped = "none"

LoadFailureShown ==
    /\ loadHow = "miss"
    /\ ~cache.value.ok
    /\ getSessionCalls = 1
    /\ loadCalls = 1
    /\ section = "Race Pace"
    /\ out[Len(out)] = "error:failed"

(***************************************************************************)
(* C3: a load failure is recoverable by reloading: after a run that showed *)
(* the load error, the next run executes load_race_data (and so the        *)
(* provider's load) again, and if that load succeeds the section is        *)
(* rendered instead of the error message.                                  *)
(***************************************************************************)
ReloadRetriesLoad ==
    [][Has("error:failed") =>
          /\ loadHow' = "miss"
          /\ cache'.value.ok => out'[Len(out')] = "footer"]_vars

(***************************************************************************)
(* C4: the session load is performed once per process: once                *)
(* load_race_data has returned a Session, every later run of main, with    *)
(* any section, gets that same Session from the memo and neither           *)
(* fastf1.get_session nor session.load is called again; the provider is    *)
(* called at most once.                                                    *)
(***************************************************************************)
SessionLoadedOnce ==
    /\ [](getSessionCalls <= 1 /\ loadCalls <= 1)
    /\ [][(cache.filled /\ cache.value.ok) =>
             /\ loadHow' = "hit"
             /\ cache' = cache
             /\ getSessionCalls' = getSessionCalls
             /\ loadCalls' = loadCalls]_vars

SessionReused ==
    /\ loadHow = "hit"
    /\ cache.value.ok
    /\ getSessionCalls = 1
    /\ loadCalls = 1
    /\ section = "Telemetry Analysis"
    /\ Has("chart:speed")

(***************************************************************************)
(* C5: in the Final Moments section, if lap 58 of 'VER' or 'HAM' has no    *)
(* record, or fetching that lap's telemetry fails, the failure is confined *)
(* to the final-lap speed chart: the position chart stays rendered, one    *)
(* warning replaces the final-lap chart, the closing text and the footer   *)
(* are rendered and no exception leaves main.                              *)
(***************************************************************************)
FinalLapMissing(d) ==
    \A i \in LapIdx(d) : cache.value.laps[i].LapNumber # FinalLap

FinalLapTelemetryMissing(d) ==
    ~FinalLapMissing(d) /\ cache.value.noTel[d] # "none"

FinalLapFailureConfined ==
    (/\ RanWithSession
     /\ section = "Final Moments"
     /\ \E d \in Drivers : FinalLapMissing(d) \/ FinalLapTelemetryMissing(d)) =>
        /\ escaped = "none"
        /\ Has("chart:position")
        /\ Count("warning:final_lap") = 1
        /\ ~Has("chart:final_lap")
        /\ Has("md:decisive")
        /\ Has("footer")

Palette(t) ==
    CASE t = "Soft" -> "#E74C3C"
      [] t = "Medium" -> "#F39C12"
      [] t = "Hard" -> "#ECF0F1"
      [] OTHER -> "no color"

UnknownCompoundFails ==
    stintOut.done =>
        IF \E i \in 1 .. Len(stintIn) :
              stintIn[i].Tyre \notin {"Soft", "Medium", "Hard"}
        THEN /\ stintOut.err = "KeyError"
             /\ stintOut.fig.traces = <<>>
        ELSE /\ stintOut.err = "none"
             /\ Len(stintOut.fig.traces) = Len(stintIn)
             /\ \A i \in 1 .. Len(stintIn) :
                   stintOut.fig.traces[i].color = Palette(stintIn[i].Tyre)

UnknownCompoundFailed ==
    /\ stintOut.done
    /\ stintIn[2].Tyre = "Intermediate"
    /\ \A i \in 1 .. Len(stintIn) : i # 2 => stintIn[i].Tyre = pit_data[i].Tyre
    /\ stintOut.err = "KeyError"

(***************************************************************************)
(* C8: for each driver of the stint table ('HAM' and 'VER') the half-open  *)
(* ranges [Start, End) of the driver's stints have Start < End, do not     *)
(* overlap and cover exactly [0, 58] without a gap.  Stated on the bars of *)
(* the rendered strategy chart: a bar spans [base, base + x).              *)
(***************************************************************************)
BarsOf(fig, d) == {i \in 1 .. Len(fig.traces) : fig.traces[i].name[1] = d}

StintsPartitionRace ==
    HasChart("tyre") =>
        LET fig == ChartNamed("tyre")
        IN  \A d \in Drivers :
               /\ BarsOf(fig, d) # {}
               /\ \A i \in BarsOf(fig, d) :
                     /\ fig.traces[i].x > 0
                     /\ fig.traces[i].base >= 0
                     /\ fig.traces[i].base + fig.traces[i].x <= FinalLap
               /\ \A k \in 0 .. (FinalLap - 1) :
                     Cardinality({i \in BarsOf(fig, d) :
                                     /\ fig.traces[i].base <= k
                                     /\ k < fig.traces[i].base + fig.traces[i].x}) = 1

StrategyChartRendered ==
    /\ RanWithSession
    /\ section = "Strategy Analysis"
    /\ Has("chart:tyre")
    /\ Len(ChartNamed("tyre").traces) = Len(pit_data)

(***************************************************************************)
(* C9: in the lap-time charts the laps with a null lap time are dropped    *)
(* before the conversion to seconds: the conversion is never applied to a  *)
(* null lap time, no plotted point is null, and for each driver the        *)
(* lap-time chart plots exactly one point per lap of that driver with a    *)
(* lap time, in lap-table order, at the lap's number and its time in       *)
(* seconds.                                                                *)
(***************************************************************************)
\* the k-th smallest element of a set of table positions
Nth(S, k) == CHOOSE i \in S : Cardinality({j \in S : j < i}) = k - 1

NullLapTimesDropped ==
    (HasChart("laptime") /\ HasChart("final_laps")) =>
        /\ \A i \in 1 .. Len(converted) : ~converted[i].null
        /\ \A d \in Drivers :
              LET tr == ChartNamed("laptime").traces[TraceOf(d)]
                  fin == ChartNamed("final_laps").traces[TraceOf(d)]
              IN  /\ Len(tr.x) = Cardinality(TimedLapIdx(d))
                  /\ Len(tr.y) = Len(tr.x)
                  /\ \A k \in 1 .. Len(tr.x) :
                        LET lap == cache.value.laps[Nth(TimedLapIdx(d), k)]
                        IN  /\ tr.x[k] = lap.LapNumber
                            /\ ~tr.y[k].nan
                            /\ 10 * tr.y[k].s + tr.y[k].frac = lap.LapTime.tenths
                            /\ tr.y[k].frac \in 0 .. 9
                  /\ \A k \in 1 .. Len(fin.y) : ~fin.y[k].nan

NullLapDropped ==
    /\ RanWithSession
    /\ section = "Race Pace"
    /\ Cardinality(LapIdx("VER")) = SmallLaps
    /\ Cardinality(TimedLapIdx("VER")) = SmallLaps - 1
    /\ Cardinality(TimedLapIdx("HAM")) = SmallLaps
    /\ HasChart("laptime")
    /\ Len(ChartNamed("laptime").traces[1].x) = SmallLaps - 1
    /\ Len(ChartNamed("laptime").traces[2].x) = SmallLaps

(***************************************************************************)
(* C10: the final-laps chart is a slice of the null-filtered lap times by  *)
(* lap number >= 49: for each driver it plots exactly the points of the    *)
(* lap-time chart whose lap number is at least 49, in the same order and   *)
(* with the same seconds; for laps 1 to 58 all with a lap time these are   *)
(* the 10 laps 49 to 58, and fewer only when some of them have no lap      *)
(* time.                                                                   *)
(***************************************************************************)
FinalLapsIsSlice ==
    (HasChart("laptime") /\ HasChart("final_laps")) =>
        \A d \in Drivers :
           LET tr == ChartNamed("laptime").traces[TraceOf(d)]
               fin == ChartNamed("final_laps").traces[TraceOf(d)]
               late == {k \in 1 .. Len(tr.x) : tr.x[k] >= 49}
           IN  /\ Len(fin.x) = Cardinality(late)
               /\ Len(fin.y) = Len(fin.x)
               /\ \A k \in 1 .. Len(fin.x) :
                     /\ fin.x[k] = tr.x[Nth(late, k)]
                     /\ fin.y[k] = tr.y[Nth(late, k)]
               /\ Cardinality(LapIdx(d)) = 58 =>
                     /\ TimedLapIdx(d) = LapIdx(d) =>
                           fin.x = [k \in 1 .. 10 |-> 48 + k]
                     /\ Len(fin.x) <= 10
                     /\ Len(fin.x) < 10 =>
                           \E i \in LapIdx(d) :
                              /\ cache.value.laps[i].LapNumber >= 49
                              /\ cache.value.laps[i].LapTime.null

FinalTenLapsPlotted ==
    /\ RanWithSession
    /\ section = "Race Pace"
    /\ Cardinality(TimedLapIdx("VER")) = 58
    /\ Cardinality(LapIdx("HAM")) = 58
    /\ Cardinality(TimedLapIdx("HAM")) = 56
    /\ HasChart("final_laps")
    /\ Len(ChartNamed("final_laps").traces[1].x) = 10
    /\ Len(ChartNamed("final_laps").traces[2].x) = 8

(***************************************************************************)
(* C11: the cache directory './cache' exists before the provider is        *)
(* invoked: in every execution of load_race_data, whether or not the       *)
(* directory existed at entry, it exists at the moment enable_cache,       *)
(* get_session and session.load are called; a missing directory is created *)
(* (os.makedirs is called, and unless that call itself raises the load     *)
(* goes on to the provider) instead of making the load fail; creating is   *)
(* idempotent: an existing directory is left as it is, os.makedirs is not  *)
(* called for it, and no later run removes the directory.                  *)
(***************************************************************************)
StepsCalling(c) == {i \in 1 .. Len(loadSteps) : loadSteps[i].call = c}

CacheDirReadyAtProviderCalls ==
    loadHow = "miss" =>
        /\ loadSteps[1].call = "exists"
        /\ \A i \in 1 .. Len(loadSteps) :
              loadSteps[i].call \in {"enable_cache", "get_session", "load"} =>
                 loadSteps[i].dir
        /\ loadSteps[1].dir =>
              /\ StepsCalling("makedirs") = {}
              /\ dirExists
              /\ StepsCalling("enable_cache") # {}
        /\ ~loadSteps[1].dir =>
              /\ StepsCalling("makedirs") = {2}
              /\ ~loadSteps[2].raised =>
                    (dirExists /\ StepsCalling("enable_cache") = {3})
              /\ loadSteps[2].raised =>
                    (Len(loadSteps) = 2 /\ ~cache.value.ok)
        /\ (\A i \in 1 .. Len(loadSteps) : ~loadSteps[i].raised) =>
              (cache.value.ok /\ getSessionCalls = 1 /\ loadCalls = 1)

CacheDirExistsBeforeProvider ==
    /\ []CacheDirReadyAtProviderCalls
    /\ [][dirExists => dirExists']_vars

MissingCacheDirCreated ==
    /\ loadHow = "miss"
    /\ ~loadSteps[1].dir
    /\ dirExists
    /\ cache.value.ok
    /\ getSessionCalls = 1
    /\ Len(loadSteps) = 5

====
